---- MODULE Spec2Model ----
(***************************************************************************)
(* mdbook-jupyter: the notebook-to-Markdown converter (src/converter.rs)   *)
(* and the preprocessor that calls it once per .ipynb chapter (src/lib.rs).*)
(*                                                                         *)
(* Text is a sequence of one-character strings, bytes are numbers 0..255.  *)
(***************************************************************************)
EXTENDS Integers, Sequences, FiniteSets, TLC

(***************************************************************************)
(* Bounds of the model.                                                    *)
(***************************************************************************)
\* book items, cells and outputs that one run of the preprocessor visits
MaxItems == 6

(***************************************************************************)
(* Text helpers.                                                           *)
(***************************************************************************)
RECURSIVE Concat(_)
\* [String]::join(""): the fragments of a sequence, concatenated in order
Concat(ss) ==
    IF ss = <<>> THEN <<>> ELSE Head(ss) \o Concat(Tail(ss))

IsPrefix(s, t) ==
    /\ Len(s) <= Len(t)
    /\ SubSeq(t, 1, Len(s)) = s

EndsWith(t, s) ==
    /\ Len(s) <= Len(t)
    /\ SubSeq(t, Len(t) - Len(s) + 1, Len(t)) = s

\* String::push_str
push_str_assign(md, s) ==
    s

push_str(md, s) ==
    md \o s

Digit(d) ==
    <<"0", "1", "2", "3", "4", "5", "6", "7", "8", "9">>[d + 1]

RECURSIVE Decimal(_)
\* u32 Display: the decimal digits of n, no padding
Decimal(n) ==
    IF n < 10 THEN <<Digit(n)>> ELSE Decimal(n \div 10) \o <<Digit(n % 10)>>

\* format!("{:03}", n): the decimal digits, zero-padded to a width of at least 3
Format03(n) ==
    LET d == Decimal(n)
    IN  IF Len(d) >= 3 THEN d
        ELSE [i \in 1..(3 - Len(d)) |-> "0"] \o d

\* the bytes of an ASCII text (str::as_bytes), for the characters the inputs use
Ord(c) ==
    CASE c = "<" -> 60
      [] c = ">" -> 62
      [] c = "/" -> 47
      [] c = "a" -> 97
      [] c = "g" -> 103
      [] c = "s" -> 115
      [] c = "v" -> 118
      [] OTHER -> 63

as_bytes(s) ==
    [i \in 1..Len(s) |-> Ord(s[i])]

(***************************************************************************)
(* base64::engine::general_purpose::STANDARD                               *)
(***************************************************************************)
B64Chars ==
    << "A", "B", "C", "D", "E", "F", "G", "H", "I", "J", "K", "L", "M",
       "N", "O", "P", "Q", "R", "S", "T", "U", "V", "W", "X", "Y", "Z",
       "a", "b", "c", "d", "e", "f", "g", "h", "i", "j", "k", "l", "m",
       "n", "o", "p", "q", "r", "s", "t", "u", "v", "w", "x", "y", "z",
       "0", "1", "2", "3", "4", "5", "6", "7", "8", "9", "+", "/" >>

B64Char(i) ==
    B64Chars[i + 1]

IsB64Char(c) ==
    \E i \in 1..64 : B64Chars[i] = c

B64Index(c) ==
    (CHOOSE i \in 1..64 : B64Chars[i] = c) - 1

RECURSIVE b64_encode(_)
\* STANDARD.encode: three bytes to four symbols, '=' padding
b64_encode(bs) ==
    IF Len(bs) = 0 THEN <<>>
    ELSE IF Len(bs) = 1 THEN
        << B64Char(bs[1] \div 4), B64Char((bs[1] % 4) * 16), "=", "=" >>
    ELSE IF Len(bs) = 2 THEN
        << B64Char(bs[1] \div 4),
           B64Char((bs[1] % 4) * 16 + bs[2] \div 16),
           B64Char((bs[2] % 16) * 4), "=" >>
    ELSE
        << B64Char(bs[1] \div 4),
           B64Char((bs[1] % 4) * 16 + bs[2] \div 16),
           B64Char((bs[2] % 16) * 4 + bs[3] \div 64),
           B64Char(bs[3] % 64) >> \o b64_encode(SubSeq(bs, 4, Len(bs)))

\* the bytes of one group of four symbols; q is the number of '=' ending it
B64Group(g, q) ==
    LET a == B64Index(g[1])
        b == B64Index(g[2])
        c == IF q >= 2 THEN 0 ELSE B64Index(g[3])
        d == IF q >= 1 THEN 0 ELSE B64Index(g[4])
        all == << a * 4 + b \div 16, (b % 16) * 16 + c \div 4, (c % 4) * 64 + d >>
    IN  SubSeq(all, 1, 3 - q)

\* a group is well formed: symbols, then canonical padding, no stray bits
B64GroupOk(g, last) ==
    LET q == IF g[4] # "=" THEN 0 ELSE IF g[3] # "=" THEN 1 ELSE 2
    IN  /\ q > 0 => last
        /\ \A i \in 1..(4 - q) : IsB64Char(g[i])
        /\ q = 1 => B64Index(g[3]) % 4 = 0
        /\ q = 2 => B64Index(g[2]) % 16 = 0

RECURSIVE B64Groups(_)
B64Groups(cs) ==
    IF Len(cs) = 0 THEN <<>>
    ELSE <<SubSeq(cs, 1, 4)>> \o B64Groups(SubSeq(cs, 5, Len(cs)))

\* STANDARD.decode: Result<Vec<u8>, DecodeError>
b64_decode(cs) ==
    IF Len(cs) % 4 # 0 THEN [ok |-> FALSE, bytes |-> <<>>]
    ELSE
        LET gs == B64Groups(cs)
            n  == Len(gs)
        IN  IF \A i \in 1..n : B64GroupOk(gs[i], i = n)
            THEN [ok |-> TRUE,
                  bytes |-> Concat([i \in 1..n |->
                      B64Group(gs[i],
                          IF gs[i][4] # "=" THEN 0
                          ELSE IF gs[i][3] # "=" THEN 1 ELSE 2)])]
            ELSE [ok |-> FALSE, bytes |-> <<>>]

(***************************************************************************)
(* serde_json values and the notebook data model (converter.rs 25-100).    *)
(* A Value is [t, v]: t the JSON type, v a sequence holding its content.   *)
(***************************************************************************)
JNull == [t |-> "null", v |-> <<>>]
JString(s) == [t |-> "string", v |-> s]
JNumber(n) == [t |-> "number", v |-> <<n>>]
JBool(b) == [t |-> "bool", v |-> <<b>>]
JArray(a) == [t |-> "array", v |-> a]
\* an object is its members <<key, value>> in key order (serde_json::Map)
JObject(o) == [t |-> "object", v |-> o]

Single(s) == [kind |-> "Single", v |-> s]
Multi(v) == [kind |-> "Multi", v |-> v]

\* MultilineString::into_string
into_string(ms) ==
    IF ms.kind = "Single" THEN ms.v ELSE Concat(ms.v)

None == [some |-> FALSE, text |-> <<>>]
Some(s) == [some |-> TRUE, text |-> s]

RECURSIVE json_escape(_)
\* the characters of a JSON string literal, escaped as serde_json writes them
json_escape(s) ==
    IF s = <<>> THEN <<>>
    ELSE (CASE Head(s) = "\"" -> <<"\\", "\"">>
            [] Head(s) = "\\" -> <<"\\", "\\">>
            [] Head(s) = "\n" -> <<"\\", "n">>
            [] OTHER -> <<Head(s)>>) \o json_escape(Tail(s))

\* serde_json Number Display, for integers
number_to_string(n) ==
    IF n < 0 THEN <<"-">> \o Decimal(0 - n) ELSE Decimal(n)

bool_to_string(b) ==
    IF b THEN <<"t", "r", "u", "e">> ELSE <<"f", "a", "l", "s", "e">>

RECURSIVE to_json(_)
RECURSIVE to_json_members(_)
RECURSIVE to_json_elements(_)
\* serde_json::to_string: compact JSON text
to_json(val) ==
    CASE val.t = "null" -> <<"n", "u", "l", "l">>
      [] val.t = "string" -> <<"\"">> \o json_escape(val.v) \o <<"\"">>
      [] val.t = "number" -> number_to_string(val.v[1])
      [] val.t = "bool" -> bool_to_string(val.v[1])
      [] val.t = "array" -> <<"[">> \o to_json_elements(val.v) \o <<"]">>
      [] val.t = "object" -> <<"{">> \o to_json_members(val.v) \o <<"}">>

to_json_elements(a) ==
    IF a = <<>> THEN <<>>
    ELSE to_json(Head(a))
         \o (IF Tail(a) = <<>> THEN <<>> ELSE <<",">>)
         \o to_json_elements(Tail(a))

to_json_members(o) ==
    IF o = <<>> THEN <<>>
    ELSE <<"\"">> \o json_escape(Head(o)[1]) \o <<"\"", ":">> \o to_json(Head(o)[2])
         \o (IF Tail(o) = <<>> THEN <<>> ELSE <<",">>)
         \o to_json_members(Tail(o))

RECURSIVE value_to_text(_)
RECURSIVE array_to_text(_)
\* value_to_text with a null resolving to the empty text instead of to no text
value_to_text_null_is_text(value) ==
    CASE value.t = "string" -> Some(value.v)
      [] value.t = "array" -> Some(array_to_text(value.v))
      [] value.t = "number" -> Some(number_to_string(value.v[1]))
      [] value.t = "object" -> Some(to_json(value))
      [] value.t = "bool" -> Some(bool_to_string(value.v[1]))
      [] value.t = "null" -> Some(<<>>)

\* value_to_text: the text of a MIME payload, None for null
value_to_text(value) ==
    CASE value.t = "string" -> Some(value.v)
      [] value.t = "array" -> Some(array_to_text(value.v))
      [] value.t = "number" -> Some(number_to_string(value.v[1]))
      [] value.t = "object" -> Some(to_json(value))
      [] value.t = "bool" -> Some(bool_to_string(value.v[1]))
      [] value.t = "null" -> None

\* the loop of the Array arm: elements that resolve are appended, nulls skipped
array_to_text(arr) ==
    IF arr = <<>> THEN <<>>
    ELSE LET s == value_to_text(Head(arr))
         IN  (IF s.some THEN s.text ELSE <<>>) \o array_to_text(Tail(arr))

\* data.get(key).and_then(|v| value_to_text(v))
Lookup(data, key) ==
    IF key \in DOMAIN data THEN value_to_text(data[key]) ELSE None

(***************************************************************************)
(* The renderer's literals.                                                *)
(***************************************************************************)
\* the grave accent, which a string of this notation cannot hold
Tick == "GRAVE"
BlankLine == <<"\n", "\n">>
FenceOpen == <<Tick, Tick, Tick, "\n">>
FencePython == <<Tick, Tick, Tick, "p", "y", "t", "h", "o", "n", "\n">>
FenceHtml == <<Tick, Tick, Tick, "h", "t", "m", "l", "\n">>
FenceError == <<Tick, Tick, Tick, "e", "r", "r", "o", "r", "\n">>
FenceClose == <<"\n", Tick, Tick, Tick, "\n", "\n">>
AltImage == <<"o", "u", "t", "p", "u", "t", " ", "i", "m", "a", "g", "e">>
AltSvg == <<"o", "u", "t", "p", "u", "t", " ", "s", "v", "g">>
OutputPrefix == <<"o", "u", "t", "p", "u", "t", "_">>
DataPrefix == <<"d", "a", "t", "a", ":">>
Base64Marker == <<";", "b", "a", "s", "e", "6", "4", ",">>

ImageKeys == {"image/png", "image/jpeg", "image/svg+xml"}

\* the characters of a MIME key, as the data URI spells it
MimeChars(key) ==
    CASE key = "image/png" -> <<"i", "m", "a", "g", "e", "/", "p", "n", "g">>
      [] key = "image/jpeg" -> <<"i", "m", "a", "g", "e", "/", "j", "p", "e", "g">>
      [] key = "image/svg+xml" ->
             <<"i", "m", "a", "g", "e", "/", "s", "v", "g", "+", "x", "m", "l">>

\* the extension of the asset file written for an image key
Ext(key) ==
    CASE key = "image/png" -> <<"p", "n", "g">>
      [] key = "image/jpeg" -> <<"j", "p", "g">>
      [] key = "image/svg+xml" -> <<"s", "v", "g">>

Alt(key) ==
    IF key = "image/svg+xml" THEN AltSvg ELSE AltImage

(***************************************************************************)
(* The preprocessor's assets directory (lib.rs 31-34): a path is the       *)
(* sequence of its components.                                             *)
(***************************************************************************)
BookRoot == << <<"r", "o", "o", "t">> >>
BuildDir == << <<"b", "o", "o", "k">> >>
assets_dir == BookRoot \o BuildDir \o << <<"h", "t", "m", "l">>, <<"a", "s", "s", "e", "t", "s">> >>

\* Path::file_name: the last component, none for an empty path or one ending in ".."
file_name(path) ==
    IF path = <<>> \/ path[Len(path)] = <<".", ".">> THEN None
    ELSE Some(path[Len(path)])

(***************************************************************************)
(* process_cell and process_output as functions of their arguments.        *)
(***************************************************************************)
\* a Markdown or Raw cell's text followed by one newline only
CellFragmentOneNewline(cell) ==
    IF cell.cell_type = "code"
    THEN FencePython \o into_string(cell.source) \o FenceClose
    ELSE into_string(cell.source) \o <<"\n">>

\* what process_cell appends for the cell itself, before any output
CellFragment(cell) ==
    IF cell.cell_type = "code"
    THEN FencePython \o into_string(cell.source) \o FenceClose
    ELSE into_string(cell.source) \o BlankLine

\* the order with text/plain ahead of text/markdown
MimePriorityPlainFirst ==
    <<"image/png", "image/jpeg", "image/svg+xml", "text/plain", "text/markdown", "text/html">>

\* the order of the if / else-if chain of the DisplayData arm
MimePriority ==
    <<"image/png", "image/jpeg", "image/svg+xml", "text/markdown", "text/plain", "text/html">>

\* the branch the chain takes: the first key whose lookup is Some, or "none"
WinningKey(data) ==
    LET hits == {i \in 1..Len(MimePriority) : Lookup(data, MimePriority[i]).some}
    IN  IF hits = {} THEN "none"
        ELSE MimePriority[CHOOSE i \in hits : \A j \in hits : i <= j]

\* the counter left as it was after a write
CounterKept(counter) ==
    counter

\* *counter += 1
CounterAfterWrite(counter) ==
    counter + 1

\* format!("output_{:03}.<ext>", *counter)
AssetFilename(counter, ext) ==
    OutputPrefix \o Format03(counter) \o <<".">> \o ext

\* the payload written as it is, without decoding
AssetBytesRaw(key, text) ==
    [ok |-> TRUE, bytes |-> as_bytes(text)]

\* the bytes of the asset: the decoded payload, or the SVG markup itself
AssetBytes(key, text) ==
    IF key = "image/svg+xml" THEN [ok |-> TRUE, bytes |-> as_bytes(text)]
    ELSE b64_decode(text)

\* the data URI of an embedded image: PNG/JPEG payloads as they are, SVG encoded
DataUri(key, text) ==
    DataPrefix \o MimeChars(key) \o Base64Marker
        \o (IF key = "image/svg+xml" THEN b64_encode(as_bytes(text)) ELSE text)

\* the path an image reference names: <dirname>/<filename>, or the filename alone
RefPath(assets_out, filename) ==
    LET dirname == file_name(assets_out)
    IN  IF dirname.some THEN dirname.text \o <<"/">> \o filename ELSE filename

\* format!("![<alt>](<target>)\n\n")
ImageRef(alt, target) ==
    <<"!", "[">> \o alt \o <<"]", "(">> \o target \o <<")">> \o BlankLine

\* the files of the assets directory after fs::write(name, bytes) succeeded
fs_write(files, name, bytes) ==
    {f \in files : f.name # name} \cup {[name |-> name, bytes |-> bytes]}

\* what a call of process_output leaves: err is "" for Ok(()), wrote lists the
\* asset that fs::write wrote in full
Outcome(err, md, counter, files, wrote) ==
    [err |-> err, md |-> md, counter |-> counter, files |-> files, wrote |-> wrote]

\* an image branch that writes the asset file whatever the options say
WritesAssetAlways(embed_images) ==
    TRUE

\* !options.embed_images: the image branches write an asset file
WritesAsset(embed_images) ==
    ~embed_images

\* a decode error that is swallowed: nothing is written and rendering goes on
DecodeFailedIgnored(md, counter, files) ==
    {Outcome("", md, counter, files, <<>>)}

\* STANDARD.decode(..)? failed: the error is returned
DecodeFailed(md, counter, files) ==
    {Outcome("decode", md, counter, files, <<>>)}

\* the image branches with embed_images false: decode, write, count, reference.
\* fs::write may fail, leaving the file absent as before or created and empty.
EmitAsset(md, key, text, assets_out, counter, files) ==
    LET decoded  == AssetBytes(key, text)
        filename == AssetFilename(counter, Ext(key))
    IN  IF ~decoded.ok THEN DecodeFailed(md, counter, files)
        ELSE {Outcome("", push_str(md, ImageRef(Alt(key), RefPath(assets_out, filename))),
                      CounterAfterWrite(counter), fs_write(files, filename, decoded.bytes),
                      <<[name |-> filename, bytes |-> decoded.bytes]>>)}
             \cup {Outcome("write", md, counter, f, <<>>) :
                      f \in {files, fs_write(files, filename, <<>>)}}

\* the DisplayData / ExecuteResult arm
RenderData(md, data, assets_out, counter, files, embed_images) ==
    LET key  == WinningKey(data)
        text == Lookup(data, key).text
    IN  CASE key = "none" -> {Outcome("", md, counter, files, <<>>)}
          [] key \in ImageKeys ->
                 IF WritesAsset(embed_images)
                 THEN EmitAsset(md, key, text, assets_out, counter, files)
                 ELSE {Outcome("", push_str(md, ImageRef(Alt(key), DataUri(key, text))),
                               counter, files, <<>>)}
          [] key = "text/markdown" ->
                 {Outcome("", push_str(push_str(md, text), BlankLine), counter, files, <<>>)}
          [] key = "text/plain" ->
                 {Outcome("", push_str(push_str(push_str(md, FenceOpen), text), FenceClose),
                          counter, files, <<>>)}
          [] key = "text/html" ->
                 {Outcome("", push_str(push_str(push_str(md, FenceHtml), text), FenceClose),
                          counter, files, <<>>)}

\* process_output: the outcomes of rendering one output
process_output(md, output, assets_out, counter, files, embed_images) ==
    CASE output.output_type = "stream" ->
             {Outcome("", push_str(push_str(push_str(md, FenceOpen),
                                   into_string(output.text)), FenceClose), counter, files, <<>>)}
      [] output.output_type \in {"display_data", "execute_result"} ->
             RenderData(md, output.data, assets_out, counter, files, embed_images)
      [] output.output_type = "error" ->
             {Outcome("", push_str(push_str(push_str(push_str(push_str(push_str(push_str(md,
                          FenceError), output.ename), <<":", " ">>), output.evalue),
                          <<"\n">>), into_string(output.traceback)), FenceClose),
                      counter, files, <<>>)}

(***************************************************************************)
(* Inputs: the notebook files, cells and outputs the model draws from.     *)
(***************************************************************************)
\* what File::open and serde_json::from_reader meet in a notebook file
NotebookFiles ==
    { [opens |-> FALSE, json |-> "none"],
      [opens |-> TRUE, json |-> "no cells field"],
      [opens |-> TRUE, json |-> "unknown cell_type"],
      [opens |-> TRUE, json |-> "notebook"] }

\* a cell as process_cell receives it; its outputs are drawn as the loop reaches them
Cells ==
    { [cell_type |-> "markdown", source |-> Single(<<"a">>)],
      [cell_type |-> "raw", source |-> Multi(<< <<"b", "\n">>, <<"c">> >>)],
      [cell_type |-> "code", source |-> Multi(<< <<"x">>, <<"y">> >>)] }

NoData == [k \in {} |-> JNull]
PngA == <<"Q", "Q", "=", "=">>
JpegAB == <<"Q", "U", "I", "=">>
PngStrayBits == <<"Q", "R", "=", "=">>
SvgMarkup == <<"<", "s", "v", "g", "/", ">">>

StreamOutput(text) == [output_type |-> "stream", text |-> text]
DisplayData(data) == [output_type |-> "display_data", data |-> data]
ExecuteResult(data) == [output_type |-> "execute_result", data |-> data]
ErrorOutput(ename, evalue, traceback) ==
    [output_type |-> "error", ename |-> ename, evalue |-> evalue, traceback |-> traceback]

Outputs ==
    { DisplayData("image/png" :> JString(PngA)),
      ExecuteResult(("image/png" :> JArray(<<JString(<<"Q", "g">>), JString(<<"=", "=">>)>>))
                    @@ ("text/plain" :> JString(<<"p">>))),
      DisplayData(("image/png" :> JNull) @@ ("image/jpeg" :> JString(JpegAB))),
      DisplayData(("image/svg+xml" :> JString(SvgMarkup))
                  @@ ("text/html" :> JString(<<"h">>))),
      DisplayData("image/png" :> JString(PngStrayBits)),
      DisplayData(("text/markdown" :> JString(<<"m">>))
                  @@ ("text/plain" :> JString(<<"p">>))),
      DisplayData(("image/png" :> JNull)
                  @@ ("application/json" :> JObject(<< <<<<"k">>, JNumber(1)>> >>))) }

\* the preprocessor's table of book.toml, as run reads embed_images from it
Configs == {"no table", "no embed_images", "not a boolean", "true", "false"}

\* the ConvertOptions run builds (lib.rs 37-44): the default unless a boolean is given
OptionsOf(config) ==
    [embed_images |-> (config = "true")]

\* the path of a chapter, by its extension
ChapterPath(ext) ==
    <<"c", "h", ".">> \o ext

Ipynb == <<"i", "p", "y", "n", "b">>
OtherItems == { <<"m", "d">> }
Original == <<"#">>

\* the text of an error, by its kind (each element is a run of characters)
ErrorText(e) ==
    <<e>>

\* the chapter content run writes when the conversion failed (lib.rs 59-65)
Placeholder(path, e) ==
    << "<!-- mdbook-jupyter: conversion error -->", "\n", "\n",
       "> **Notebook conversion failed** for ", Tick >> \o path \o << Tick, "\n", "\n",
       Tick, Tick, Tick, "\n" >> \o ErrorText(e) \o << "\n", Tick, Tick, Tick, "\n",
       "\n", "\n", "Please check the original notebook and converter logs for details." >>

NoResult == [tag |-> "none", md |-> <<>>, e |-> ""]
Ok(text) == [tag |-> "Ok", md |-> text, e |-> ""]
Err(e) == [tag |-> "Err", md |-> <<>>, e |-> e]

(***************************************************************************)
(* State.                                                                  *)
(***************************************************************************)
VARIABLES
    options,        \* the ConvertOptions of this run
    book,           \* the book items visited so far, as run left them
    pc,             \* where run is: "run", "parsed", "cells", "outputs", "returned"
    file,           \* the notebook file of the current conversion call
    cells,          \* the cells (with the outputs) the call has consumed so far
    md,             \* the call's output buffer
    asset_counter,  \* the call's asset counter
    files,          \* the files of the assets directory: {[name, bytes]}
    dir_exists,     \* the assets directory exists
    result,         \* what the call returned
    written,        \* the assets the call has written: <<[name, bytes]>>
    mkdirs,         \* how often the call has called create_dir_all
    items           \* book items, cells and outputs visited during this run

vars ==
    << options, book, pc, file, cells, md, asset_counter, files, dir_exists,
       result, written, mkdirs, items >>

NoFile == [opens |-> FALSE, json |-> "no call"]

Init ==
    /\ options \in {OptionsOf(c) : c \in Configs}
    /\ book = <<>>
    /\ pc = "run"
    /\ file = NoFile
    /\ cells = <<>>
    /\ md = <<>>
    /\ asset_counter = 0
    /\ files = {}
    /\ dir_exists = FALSE
    /\ result = NoResult
    /\ written = <<>>
    /\ mkdirs = 0
    /\ items = 0

\* for_each_mut visits an item that is no .ipynb chapter: it is left as it is
VisitOther ==
    /\ pc = "run"
    /\ items < MaxItems
    /\ \E ext \in OtherItems :
           book' = Append(book, [path |-> ChapterPath(ext), content |-> Original,
                                 converted |-> FALSE, cells |-> <<>>, written |-> <<>>])
    /\ items' = items + 1
    /\ UNCHANGED << options, pc, file, cells, md, asset_counter, files, dir_exists,
                    result, written, mkdirs >>

\* serde_json::from_reader::<Notebook>: the JSON is a notebook of known tags
Deserializes(f) ==
    f.json = "notebook"

\* run calls convert_notebook_to_md_with_options for an .ipynb chapter, which
\* opens and parses the file (converter.rs 110-111)
OpenAndParse ==
    /\ pc = "run"
    /\ items < MaxItems
    /\ \E f \in NotebookFiles :
           /\ file' = f
           /\ IF ~f.opens THEN pc' = "returned" /\ result' = Err("open")
              ELSE IF ~Deserializes(f) THEN pc' = "returned" /\ result' = Err("parse")
              ELSE pc' = "parsed" /\ result' = NoResult
    /\ cells' = <<>>
    /\ written' = <<>>
    /\ mkdirs' = 0
    /\ items' = items + 1
    /\ UNCHANGED << options, book, md, asset_counter, files, dir_exists >>

\* create_dir_all attempted whatever the options say
NeedsAssetsDirAlways(opts) ==
    TRUE

\* !options.embed_images (converter.rs 114)
NeedsAssetsDir(opts) ==
    ~opts.embed_images

\* converter.rs 113-131: create the assets directory if assets will be written,
\* then start the buffer and the counter
CreateAssetsDir ==
    /\ pc = "parsed"
    /\ IF NeedsAssetsDir(options)
       THEN /\ mkdirs' = mkdirs + 1
            /\ \/ /\ dir_exists' = TRUE
                  /\ pc' = "cells"
                  /\ md' = <<>>
                  /\ asset_counter' = 0
                  /\ UNCHANGED result
               \/ /\ pc' = "returned"
                  /\ result' = Err("create_dir_all")
                  /\ UNCHANGED << dir_exists, md, asset_counter >>
       ELSE /\ pc' = "cells"
            /\ md' = <<>>
            /\ asset_counter' = 0
            /\ UNCHANGED << dir_exists, result, mkdirs >>
    /\ UNCHANGED << options, book, file, cells, files, written, items >>

\* one turn of the loop over the cells (converter.rs 133-135): process_cell up to
\* its loop over the outputs
ProcessCell ==
    /\ pc = "cells"
    /\ items < MaxItems
    /\ \E cell \in Cells :
           /\ md' = push_str(md, CellFragment(cell))
           /\ cells' = Append(cells, [cell_type |-> cell.cell_type,
                                      source |-> cell.source, outputs |-> <<>>])
           /\ pc' = IF cell.cell_type = "code" THEN "outputs" ELSE "cells"
    /\ items' = items + 1
    /\ UNCHANGED << options, book, file, asset_counter, files, dir_exists, result,
                    written, mkdirs >>

\* the cells consumed, with an output added to the last (a code cell)
WithOutput(cs, output) ==
    [cs EXCEPT ![Len(cs)].outputs = Append(@, output)]

\* one turn of process_cell's loop over the outputs (converter.rs 201-203);
\* an error leaves the call through the ? of each caller
ProcessOutputFrom(S) ==
    /\ pc = "outputs"
    /\ items < MaxItems
    /\ \E output \in S :
           /\ cells' = WithOutput(cells, output)
           /\ \E o \in process_output(md, output, assets_dir, asset_counter, files,
                                      options.embed_images) :
                  /\ md' = o.md
                  /\ asset_counter' = o.counter
                  /\ files' = o.files
                  /\ written' = written \o o.wrote
                  /\ IF o.err = "" THEN UNCHANGED << pc, result >>
                     ELSE pc' = "returned" /\ result' = Err(o.err)
    /\ items' = items + 1
    /\ UNCHANGED << options, book, file, dir_exists, mkdirs >>

ProcessOutput ==
    ProcessOutputFrom(Outputs)

\* the loop over a code cell's outputs ends: process_cell returns Ok(())
EndOutputs ==
    /\ pc = "outputs"
    /\ pc' = "cells"
    /\ UNCHANGED << options, book, file, cells, md, asset_counter, files, dir_exists,
                    result, written, mkdirs, items >>

\* the loop over the cells ends: Ok(md) (converter.rs 137)
ReturnOk ==
    /\ pc = "cells"
    /\ pc' = "returned"
    /\ result' = Ok(md)
    /\ UNCHANGED << options, book, file, cells, md, asset_counter, files, dir_exists,
                    written, mkdirs, items >>

\* run's match on the call's result (lib.rs 51-67): the chapter's new content;
\* the call's locals are gone
StoreChapter ==
    /\ pc = "returned"
    /\ book' = Append(book,
           [path |-> ChapterPath(Ipynb),
            content |-> IF result.tag = "Ok" THEN result.md
                        ELSE Placeholder(ChapterPath(Ipynb), result.e),
            converted |-> (result.tag = "Ok"),
            cells |-> cells,
            written |-> written])
    /\ pc' = "run"
    /\ file' = NoFile
    /\ cells' = <<>>
    /\ md' = <<>>
    /\ asset_counter' = 0
    /\ result' = NoResult
    /\ written' = <<>>
    /\ mkdirs' = 0
    /\ UNCHANGED << options, files, dir_exists, items >>

Next ==
    \/ VisitOther
    \/ OpenAndParse
    \/ CreateAssetsDir
    \/ ProcessCell
    \/ ProcessOutput
    \/ EndOutputs
    \/ ReturnOk
    \/ StoreChapter

Spec ==
    Init /\ [][Next]_vars

(***************************************************************************)
(* process_output on its own, over every shape of a MIME bundle: the call  *)
(* is in a code cell's output loop, some assets already written, and one   *)
(* more output is rendered.                                                *)
(***************************************************************************)
\* assets a call may have written before the output under test
MaxPrior == 2

Absent == [t |-> "absent", v |-> <<>>]

MimeKeys ==
    {"image/png", "image/jpeg", "image/svg+xml", "text/markdown", "text/plain", "text/html"}

\* the MIME bundle holding the values given, a key left out where the value is Absent
Bundle(png, jpeg, svg, markdown, plain, html, other) ==
    LET all == ("image/png" :> png) @@ ("image/jpeg" :> jpeg) @@ ("image/svg+xml" :> svg)
               @@ ("text/markdown" :> markdown) @@ ("text/plain" :> plain)
               @@ ("text/html" :> html) @@ ("application/json" :> other)
    IN  [k \in {x \in DOMAIN all : all[x] # Absent} |-> all[k]]

AllBundles ==
    { Bundle(png, jpeg, svg, markdown, plain, html, other) :
        png \in {Absent, JNull, JString(PngA), JString(PngStrayBits),
                 JArray(<<JString(<<"Q", "g">>), JNull, JString(<<"=", "=">>)>>)},
        jpeg \in {Absent, JNull, JString(JpegAB)},
        svg \in {Absent, JNull, JString(SvgMarkup)},
        markdown \in {Absent, JNull, JString(<<"m">>), JArray(<<JNull>>)},
        plain \in {Absent, JNull, JNumber(7), JString(<<"p">>)},
        html \in {Absent, JNull, JBool(TRUE), JObject(<< <<<<"k">>, JString(<<"\"">>)>> >>)},
        other \in {Absent, JString(<<"j">>)} }

AllOutputs ==
    {DisplayData(d) : d \in AllBundles} \cup {ExecuteResult(d) : d \in AllBundles}
    \cup { StreamOutput(Single(<<"o", "k">>)),
           StreamOutput(Multi(<< <<"o">>, <<"k">> >>)),
           ErrorOutput(<<"E">>, <<"v">>, Single(<<"t">>)),
           ErrorOutput(<<"E">>, <<"v">>, Multi(<< <<"t", "\n">>, <<"u">> >>)) }

CodeCell ==
    [cell_type |-> "code", source |-> Single(<<"x">>)]

RECURSIVE AfterPngOutputs(_, _)
\* what process_output has left after n successful PNG outputs of a code cell
AfterPngOutputs(n, embed_images) ==
    IF n = 0 THEN Outcome("", CellFragment(CodeCell), 0, {}, <<>>)
    ELSE LET before == AfterPngOutputs(n - 1, embed_images)
             o == CHOOSE x \in process_output(before.md,
                                  DisplayData("image/png" :> JString(PngA)), assets_dir,
                                  before.counter, before.files, embed_images) : x.err = ""
         IN  Outcome("", o.md, o.counter, o.files, before.wrote \o o.wrote)

\* a call in the output loop of its first cell, after n PNG outputs
DispatchInit ==
    \E n \in 0..MaxPrior, c \in Configs :
        LET before == AfterPngOutputs(n, OptionsOf(c).embed_images)
        IN  /\ options = OptionsOf(c)
            /\ book = <<>>
            /\ pc = "outputs"
            /\ file = [opens |-> TRUE, json |-> "notebook"]
            /\ cells = << [cell_type |-> "code", source |-> CodeCell.source,
                           outputs |-> [i \in 1..n |->
                               DisplayData("image/png" :> JString(PngA))]] >>
            /\ md = before.md
            /\ asset_counter = before.counter
            /\ files = before.files
            /\ dir_exists = NeedsAssetsDir(OptionsOf(c))
            /\ result = NoResult
            /\ written = before.wrote
            /\ mkdirs = IF NeedsAssetsDir(OptionsOf(c)) THEN 1 ELSE 0
            /\ items = MaxItems - 1

RenderAnyOutput ==
    ProcessOutputFrom(AllOutputs)

DispatchNext ==
    RenderAnyOutput

SpecDispatch ==
    DispatchInit /\ [][DispatchNext]_vars

(***************************************************************************)
(* The properties.  What they expect is written out from the notebook      *)
(* format and the documented output, not taken from the operators above.   *)
(***************************************************************************)
PriorityOrder ==
    <<"image/png", "image/jpeg", "image/svg+xml", "text/markdown", "text/plain", "text/html">>

IsBundle(output) ==
    output.output_type \in {"display_data", "execute_result"}

\* the key is present in the bundle and its value is not null
Usable(data, key) ==
    key \in DOMAIN data /\ data[key].t # "null"

\* the first key of the priority order that is usable, "none" if there is none
FirstUsable(data) ==
    LET hits == {i \in 1..6 : Usable(data, PriorityOrder[i])}
    IN  IF hits = {} THEN "none"
        ELSE PriorityOrder[CHOOSE i \in hits : \A j \in hits : i <= j]

\* the output is rendered as an image
IsImageOutput(output) ==
    IsBundle(output) /\ FirstUsable(output.data) \in ImageKeys

RECURSIVE OutputsOf(_)
\* the outputs of a sequence of cells, in order
OutputsOf(cs) ==
    IF cs = <<>> THEN <<>> ELSE Head(cs).outputs \o OutputsOf(Tail(cs))

ImageOutputsOf(cs) ==
    SelectSeq(OutputsOf(cs), IsImageOutput)

LastOutput(cs) ==
    cs[Len(cs)].outputs[Len(cs[Len(cs)].outputs)]

\* the step renders one output: the one that is the last of cells afterwards
OutputStep ==
    pc = "outputs" /\ cells' # cells

ThreeDigits(k) ==
    << Digit(k \div 100), Digit((k \div 10) % 10), Digit(k % 10) >>

ExtensionOf(key) ==
    CASE key = "image/png" -> <<"p", "n", "g">>
      [] key = "image/jpeg" -> <<"j", "p", "g">>
      [] key = "image/svg+xml" -> <<"s", "v", "g">>

\* output_<k as 3 digits>.<ext>
NameOfAsset(k, key) ==
    <<"o", "u", "t", "p", "u", "t", "_">> \o ThreeDigits(k) \o <<".">> \o ExtensionOf(key)

\* how often t occurs in s
Occurrences(s, t) ==
    Cardinality({i \in 1..(Len(s) - Len(t) + 1) : SubSeq(s, i, i + Len(t) - 1) = t})

InCall ==
    pc \in {"parsed", "cells", "outputs", "returned"}

ReturnedOk ==
    pc = "returned" /\ result.tag = "Ok"

\* C1: with embed_images false the counter is the number of assets the call has
\* written so far (0 at the start, one more after each successful write, never
\* reset between cells), and the k-th asset written (k = 0, 1, ...) is the file
\* output_<k as 3 digits>.<ext>, ext that of the k-th image output's MIME key.
C1_CounterNamesAssets ==
    (InCall /\ ~options.embed_images) =>
        /\ asset_counter = Len(written)
        /\ Len(written) <= Len(ImageOutputsOf(cells))
        /\ \A k \in 1..Len(written) :
               /\ written[k].name =
                      NameOfAsset(k - 1, FirstUsable(ImageOutputsOf(cells)[k].data))
               /\ \E f \in files : f.name = written[k].name

\* three assets written across two code cells
C1_Witness ==
    /\ ReturnedOk
    /\ ~options.embed_images
    /\ Len(cells) = 2
    /\ cells[1].outputs # <<>>
    /\ cells[2].outputs # <<>>
    /\ asset_counter = 3
    /\ written[3].name \in {NameOfAsset(2, key) : key \in ImageKeys}

RECURSIVE JoinedBy(_, _)
\* the texts of a sequence with sep between each two
JoinedBy(texts, sep) ==
    IF texts = <<>> THEN <<>>
    ELSE IF Len(texts) = 1 THEN texts[1]
    ELSE texts[1] \o sep \o JoinedBy(Tail(texts), sep)

RECURSIVE EachFollowedBy(_, _)
\* the texts of a sequence, each with sep after it
EachFollowedBy(texts, sep) ==
    IF texts = <<>> THEN <<>>
    ELSE texts[1] \o sep \o EachFollowedBy(Tail(texts), sep)

OnlyMarkdownOrRaw(cs) ==
    \A i \in 1..Len(cs) : cs[i].cell_type \in {"markdown", "raw"}

NormalizedSources(cs) ==
    [i \in 1..Len(cs) |-> into_string(cs[i].source)]

\* C3 as stated: a notebook of Markdown/Raw cells only converts to its cells'
\* normalized sources joined by a blank line (two newlines), in order.
C3_JoinedByBlankLine ==
    (ReturnedOk /\ OnlyMarkdownOrRaw(cells)) =>
        result.md = JoinedBy(NormalizedSources(cells), <<"\n", "\n">>)

\* C3 amended: a notebook of Markdown/Raw cells only converts to its cells'
\* normalized sources, in order, each followed by a blank line (two newlines),
\* the last one too.
C3_EachFollowedByBlankLine ==
    (ReturnedOk /\ OnlyMarkdownOrRaw(cells)) =>
        result.md = EachFollowedBy(NormalizedSources(cells), <<"\n", "\n">>)

\* a Markdown cell and a Raw cell converted
C3_Witness ==
    /\ ReturnedOk
    /\ Len(cells) = 2
    /\ cells[1].cell_type = "markdown"
    /\ cells[2].cell_type = "raw"
    /\ result.md = <<"a", "\n", "\n", "b", "\n", "c", "\n", "\n">>

\* the cells consumed grow at the end only: a new cell, or an output of the last cell
CellsExtended ==
    \/ cells' = cells
    \/ /\ Len(cells') = Len(cells) + 1
       /\ SubSeq(cells', 1, Len(cells)) = cells
       /\ cells'[Len(cells')].outputs = <<>>
    \/ /\ Len(cells') = Len(cells)
       /\ Len(cells) > 0
       /\ SubSeq(cells', 1, Len(cells) - 1) = SubSeq(cells, 1, Len(cells) - 1)
       /\ cells'[Len(cells)].source = cells[Len(cells)].source
       /\ SubSeq(cells'[Len(cells)].outputs, 1, Len(cells[Len(cells)].outputs))
              = cells[Len(cells)].outputs
       /\ Len(cells'[Len(cells)].outputs) = Len(cells[Len(cells)].outputs) + 1

\* C4: while a call renders, every step leaves the buffer a prefix of the new
\* buffer; cells and outputs are taken in order; a cell appends its own fragment
\* (holding its source) when it is taken, a code cell's fence before any of its
\* outputs.
C4_AppendOnly ==
    [][ (pc \in {"cells", "outputs"}) =>
            /\ IsPrefix(md, md')
            /\ CellsExtended
            /\ Len(cells') = Len(cells) + 1 =>
                   LET cell == cells'[Len(cells')]
                       src  == into_string(cell.source)
                   IN  md' = md \o (IF cell.cell_type = "code"
                                    THEN <<Tick, Tick, Tick, "p", "y", "t", "h", "o", "n", "\n">>
                                         \o src \o <<"\n", Tick, Tick, Tick, "\n", "\n">>
                                    ELSE src \o <<"\n", "\n">>)
      ]_vars

\* a code cell rendered with two outputs after its fence
C4_Witness ==
    /\ pc = "outputs"
    /\ Len(cells) = 2
    /\ Len(cells[2].outputs) = 2
    /\ Len(md) > Len(CellFragment(cells[1])) + Len(CellFragment(cells[2]))

\* what the step appended to the buffer
Appended ==
    SubSeq(md', Len(md) + 1, Len(md'))

StartsWith(t, s) ==
    IsPrefix(s, t)

\* the start of an image reference, up to where the payload or the counter follows
ImageHead(key, embed_images) ==
    CASE key = "image/png" /\ embed_images -> <<"!", "[", "o", "u", "t", "p", "u", "t", " ", "i", "m", "a", "g", "e", "]", "(", "d", "a", "t", "a", ":", "i", "m", "a", "g", "e", "/", "p", "n", "g", ";", "b", "a", "s", "e", "6", "4", ",">>
      [] key = "image/jpeg" /\ embed_images -> <<"!", "[", "o", "u", "t", "p", "u", "t", " ", "i", "m", "a", "g", "e", "]", "(", "d", "a", "t", "a", ":", "i", "m", "a", "g", "e", "/", "j", "p", "e", "g", ";", "b", "a", "s", "e", "6", "4", ",">>
      [] key = "image/svg+xml" /\ embed_images -> <<"!", "[", "o", "u", "t", "p", "u", "t", " ", "s", "v", "g", "]", "(", "d", "a", "t", "a", ":", "i", "m", "a", "g", "e", "/", "s", "v", "g", "+", "x", "m", "l", ";", "b", "a", "s", "e", "6", "4", ",">>
      [] key = "image/svg+xml" /\ ~embed_images -> <<"!", "[", "o", "u", "t", "p", "u", "t", " ", "s", "v", "g", "]", "(", "a", "s", "s", "e", "t", "s", "/", "o", "u", "t", "p", "u", "t", "_">>
      [] OTHER -> <<"!", "[", "o", "u", "t", "p", "u", "t", " ", "i", "m", "a", "g", "e", "]", "(", "a", "s", "s", "e", "t", "s", "/", "o", "u", "t", "p", "u", "t", "_">>

\* the end of an image reference
ImageTail(key, embed_images) ==
    IF embed_images THEN <<")", "\n", "\n">>
    ELSE <<".">> \o ExtensionOf(key) \o <<")", "\n", "\n">>

\* C2: DisplayData and ExecuteResult alike, the first key of image/png, image/jpeg,
\* image/svg+xml, text/markdown, text/plain, text/html that is present with a value
\* other than null decides the rendering and no later key is rendered: text/markdown
\* verbatim plus a blank line, text/plain fenced, text/html fenced as html, an image
\* key as an image reference of its own type; only an image written to a file can fail.
C2_FirstUsableKeyWins ==
    [][ (OutputStep /\ IsBundle(LastOutput(cells'))) =>
            LET data == LastOutput(cells').data
                key  == FirstUsable(data)
                text == value_to_text(data[key]).text
            IN  /\ IsPrefix(md, md')
                /\ result'.tag = "Err" =>
                       (key \in ImageKeys /\ ~options.embed_images /\ Appended = <<>>)
                /\ result'.tag # "Err" =>
                       CASE key = "none" -> Appended = <<>>
                         [] key = "text/markdown" -> Appended = text \o <<"\n", "\n">>
                         [] key = "text/plain" ->
                                Appended = <<Tick, Tick, Tick, "\n">> \o text \o <<"\n", Tick, Tick, Tick, "\n", "\n">>
                         [] key = "text/html" ->
                                Appended = <<Tick, Tick, Tick, "h", "t", "m", "l", "\n">> \o text \o <<"\n", Tick, Tick, Tick, "\n", "\n">>
                         [] OTHER ->
                                /\ StartsWith(Appended, ImageHead(key, options.embed_images))
                                /\ EndsWith(Appended, ImageTail(key, options.embed_images))
                                /\ Occurrences(Appended, <<"!", "[">>) = 1
      ]_vars

\* an output with text/markdown and text/plain rendered as the markdown text, no fence
C2_Witness ==
    /\ pc = "outputs"
    /\ cells[1].outputs # <<>>
    /\ IsBundle(LastOutput(cells))
    /\ FirstUsable(LastOutput(cells).data) = "text/markdown"
    /\ Usable(LastOutput(cells).data, "text/plain")
    /\ Usable(LastOutput(cells).data, "text/html")
    /\ EndsWith(md, <<"\n", Tick, Tick, Tick, "\n", "\n">> \o <<"m", "\n", "\n">>)

\* the payload of the call's failing PNG/JPEG output does not decode
UndecodableImage(output) ==
    /\ IsBundle(output)
    /\ FirstUsable(output.data) \in {"image/png", "image/jpeg"}
    /\ ~b64_decode(value_to_text(output.data[FirstUsable(output.data)]).text).ok

\* C5: an error ends the call at the step that fails: a file that does not open or
\* parse (no cells field, unknown cell_type) fails before the assets directory or
\* any file is touched; a payload that does not decode fails the call; the failing
\* step renders nothing and counts no asset; the call returns the error alone; and
\* after it the chapter gets the placeholder, nothing more is rendered or written.
C5_ErrorsAbort ==
    [][ /\ (pc = "run" /\ file' # NoFile /\ file'.json # "notebook") =>
               /\ pc' = "returned" /\ result'.tag = "Err"
               /\ files' = files /\ dir_exists' = dir_exists
               /\ mkdirs' = 0 /\ written' = <<>> /\ cells' = <<>>
        /\ (OutputStep /\ ~options.embed_images /\ UndecodableImage(LastOutput(cells'))) =>
               /\ result'.tag = "Err"
               /\ files' = files
        /\ (result'.tag = "Err" /\ result.tag # "Err") =>
               /\ pc' = "returned"
               /\ result'.md = <<>>
               /\ md' = md
               /\ asset_counter' = asset_counter
               /\ written' = written
        /\ (pc = "returned" /\ result.tag = "Err") =>
               /\ files' = files /\ dir_exists' = dir_exists
               /\ Len(book') = Len(book) + 1
               /\ ~book'[Len(book')].converted
               /\ book'[Len(book')].content[1] = "<!-- mdbook-jupyter: conversion error -->"
               /\ pc' = "run"
      ]_vars

\* a call that wrote one asset and then failed to decode the next payload
C5_Witness ==
    /\ pc = "returned"
    /\ result = Err("decode")
    /\ Len(written) = 1
    /\ Cardinality(files) = 1
    /\ UndecodableImage(LastOutput(cells))

\* the base64 text of the SVG markup of the inputs
ExpectedSvgBase64(text) ==
    CASE text = <<"<", "s", "v", "g", "/", ">">> -> <<"P", "H", "N", "2", "Z", "y", "8", "+">>
      [] OTHER -> <<>>

\* the reference of an embedded image
EmbeddedRef(key, text) ==
    ImageHead(key, TRUE)
        \o (IF key = "image/svg+xml" THEN ExpectedSvgBase64(text) ELSE text)
        \o <<")", "\n", "\n">>

\* C6: with embed_images true no step creates the assets directory, writes a file
\* or moves the counter; an image output appends data:<mime>;base64,<payload>, the
\* payload as given for PNG/JPEG and the base64 text of the markup for SVG; and a
\* notebook converted again returns the Markdown it returned before.
C6_EmbedNoSideEffects ==
    [][ options.embed_images =>
            /\ files' = {} /\ dir_exists' = FALSE
            /\ asset_counter' = 0 /\ mkdirs' = 0 /\ written' = <<>>
            /\ result'.tag # "Err" \/ result'.e \in {"open", "parse"}
            /\ (OutputStep /\ IsImageOutput(LastOutput(cells'))) =>
                   LET data == LastOutput(cells').data
                       key  == FirstUsable(data)
                   IN  md' = md \o EmbeddedRef(key, value_to_text(data[key]).text)
            /\ ReturnedOk =>
                   \A i \in DOMAIN book :
                       (book[i].converted /\ book[i].cells = cells) =>
                           book[i].content = result.md
      ]_vars

\* the same notebook, with an SVG output, converted a second time
C6_Witness ==
    /\ options.embed_images
    /\ ReturnedOk
    /\ Len(book) = 1
    /\ book[1].converted
    /\ book[1].cells = cells
    /\ Len(cells) = 1
    /\ cells[1].outputs # <<>>
    /\ FirstUsable(LastOutput(cells).data) = "image/svg+xml"
    /\ EndsWith(result.md, <<"!", "[", "o", "u", "t", "p", "u", "t", " ", "s", "v", "g", "]", "(", "d", "a", "t", "a", ":", "i", "m", "a", "g", "e", "/", "s", "v", "g", "+", "x", "m", "l", ";", "b", "a", "s", "e", "6", "4", ",">> \o <<"P", "H", "N", "2", "Z", "y", "8", "+">> \o <<")", "\n", "\n">>)

\* C7: the assets a call has written stay as that call wrote them: once run has
\* stored chapters that all converted, every file a chapter's image references
\* name still holds the bytes its call wrote.
C7_AssetsNeverOverwritten ==
    (pc = "run" /\ \A i \in DOMAIN book : book[i].converted) =>
        \A i \in DOMAIN book :
            \A k \in DOMAIN book[i].written : book[i].written[k] \in files

\* the bytes the payloads of the inputs stand for (none for any other text)
ExpectedBytes(key, text) ==
    CASE text = <<"Q", "Q", "=", "=">> -> <<65>>
      [] text = <<"Q", "g", "=", "=">> -> <<66>>
      [] text = <<"Q", "U", "I", "=">> -> <<65, 66>>
      [] text = <<"<", "s", "v", "g", "/", ">">> -> <<60, 115, 118, 103, 47, 62>>
      [] OTHER -> <<>>

\* ![<alt>](assets/<name>) and a blank line
RefTo(key, name) ==
    <<"!", "[">> \o (IF key = "image/svg+xml" THEN <<"o", "u", "t", "p", "u", "t", " ", "s", "v", "g">> ELSE <<"o", "u", "t", "p", "u", "t", " ", "i", "m", "a", "g", "e">>)
        \o <<"]", "(", "a", "s", "s", "e", "t", "s", "/">> \o name \o <<")", "\n", "\n">>

\* C8: a conversion with embed_images false that succeeded has, for its k-th image
\* output (k = 0, 1, ...), exactly one reference in the Markdown, to
\* assets/output_<k>.<ext>, and exactly one file of that name, holding the decoded
\* payload (PNG/JPEG) or the markup (SVG); there are no other image references,
\* and the first call of a run leaves no other file.
C8_OneReferenceOneFile ==
    (ReturnedOk /\ ~options.embed_images) =>
        LET imgs == ImageOutputsOf(cells)
        IN  /\ Len(written) = Len(imgs)
            /\ Occurrences(result.md, <<"!", "[", "o", "u", "t", "p", "u", "t", " ">>) = Len(imgs)
            /\ book = <<>> => Cardinality(files) = Len(imgs)
            /\ \A k \in 1..Len(imgs) :
                   LET key  == FirstUsable(imgs[k].data)
                       name == NameOfAsset(k - 1, key)
                       text == value_to_text(imgs[k].data[key]).text
                   IN  /\ Occurrences(result.md, RefTo(key, name)) = 1
                       /\ {f \in files : f.name = name}
                              = {[name |-> name, bytes |-> ExpectedBytes(key, text)]}

\* a single image/png DisplayData output: output_000.png, the decoded byte
C8_Witness ==
    /\ ReturnedOk
    /\ ~options.embed_images
    /\ book = <<>>
    /\ Len(cells) = 1
    /\ cells[1].outputs = << [output_type |-> "display_data",
                              data |-> ("image/png" :> JString(<<"Q", "Q", "=", "=">>))] >>
    /\ files = {[name |-> <<"o", "u", "t", "p", "u", "t", "_", "0", "0", "0", ".", "p", "n", "g">>, bytes |-> <<65>>]}
    /\ Occurrences(result.md, <<"!", "[", "o", "u", "t", "p", "u", "t", " ", "i", "m", "a", "g", "e", "]", "(", "a", "s", "s", "e", "t", "s", "/", "o", "u", "t", "p", "u", "t", "_", "0", "0", "0", ".", "p", "n", "g", ")", "\n", "\n">>) = 1

\* C9: an output that is rendered appends one fragment (not empty, ending in the
\* only blank line it holds); a DisplayData/ExecuteResult output none of whose six
\* keys is usable appends nothing, is no error, and leaves buffer, counter, files
\* and directory as they were.
C9_OneFragmentOrDropped ==
    [][ OutputStep =>
            LET output == LastOutput(cells')
            IN  IF IsBundle(output) /\ FirstUsable(output.data) = "none"
                THEN /\ md' = md /\ asset_counter' = asset_counter
                     /\ files' = files /\ dir_exists' = dir_exists
                     /\ written' = written
                     /\ result'.tag # "Err" /\ pc' = "outputs"
                ELSE result'.tag # "Err" =>
                         /\ IsPrefix(md, md')
                         /\ Appended # <<>>
                         /\ EndsWith(Appended, <<"\n", "\n">>)
                         /\ Occurrences(Appended, <<"\n", "\n">>) = 1
      ]_vars

\* an output whose bundle has keys, none usable, was dropped
C9_Witness ==
    /\ pc = "outputs"
    /\ result.tag = "none"
    /\ cells[1].outputs # <<>>
    /\ IsBundle(LastOutput(cells))
    /\ "image/png" \in DOMAIN LastOutput(cells).data
    /\ "text/plain" \in DOMAIN LastOutput(cells).data
    /\ FirstUsable(LastOutput(cells).data) = "none"
    /\ md = AfterPngOutputs(Len(cells[1].outputs) - 1, options.embed_images).md

\* C10: create_dir_all is called at most once in a call, never with embed_images
\* true, from the state right after the parse succeeded, when nothing is rendered
\* or written yet; every asset written has the call and the directory behind it;
\* and the call that failed there has rendered no cell, written no asset, and
\* leaves the chapter unconverted.
C10_AssetsDirOnce ==
    [][ /\ mkdirs' \in {0, 1}
        /\ options.embed_images => mkdirs' = 0
        /\ mkdirs' = mkdirs + 1 =>
               (pc = "parsed" /\ cells = <<>> /\ written = <<>> /\ md = <<>>)
        /\ (pc = "parsed" /\ ~options.embed_images) => mkdirs' = 1
        /\ written' # <<>> => (mkdirs' = 1 /\ dir_exists')
        /\ result'.e = "create_dir_all" =>
               (pc' = "returned" /\ cells' = <<>> /\ written' = <<>> /\ files' = files)
        /\ result.e = "create_dir_all" =>
               (files' = files /\ ~book'[Len(book')].converted)
      ]_vars

\* the call failed to create the assets directory
C10_Witness ==
    /\ pc = "returned"
    /\ result = Err("create_dir_all")
    /\ mkdirs = 1
    /\ ~dir_exists

====
